---- MODULE Spec2Model ----
(***************************************************************************)
(* openlr::PathsConnector (openlr/paths_connector.cpp): the connection of  *)
(* candidate edge sequences of consecutive location reference points.      *)
(*                                                                         *)
(* An edge is an identifier of EdgeIds; the order of the identifiers is    *)
(* Graph::Edge's total order.  An EdgeVector is a sequence of edges.       *)
(* uint32_t scores are modelled by naturals: every score of the model is   *)
(* far below 2^32, so no addition wraps.                                   *)
(***************************************************************************)
EXTENDS Integers, Sequences, FiniteSets, TLC

VARIABLES
  edges,           \* the edges the graph holds (Graph, read through GetOutgoingEdges)
  len,             \* the length of every edge (EdgeLength)
  pc,              \* the position of the running operation
  fsp,             \* FindShortestPath: its arguments and, once it returned, its result
  adj,             \* ConnectAdjacentCandidateLines: its arguments and its result
  points,          \* ConnectCandidates: points[i] is points[i].m_distanceToNextPoint
  lineCandidates,  \* ConnectCandidates: the candidate sequences of every point
  resultPath,      \* ConnectCandidates: the caller's output vector
  i,               \* ConnectCandidates: the segment index of the outer loop
  fromInd,         \* ConnectCandidates: index into fromCandidates (from 0, as in the code)
  toInd,           \* ConnectCandidates: index into toCandidates (from 0, as in the code)
  found,           \* ConnectCandidates: the local found
  fakePath,        \* ConnectCandidates: the local fakePath
  stat,            \* m_stat.m_noShortestPathFound
  ret,             \* ConnectCandidates: "none" while running, then "true" or "false"
  tolerance,       \* m_pathLengthTolerance, the fraction tolerance[1] / tolerance[2]
  tried,           \* history: the <<i, fromInd, toInd>> whose loop body has run
  fakeInd,         \* history: the <<fromInd, toInd>> that filled fakePath
  chosen           \* history: chosen[i] is the <<fromInd, toInd>> accepted for segment i

vars == <<edges, len, pc, fsp, adj, points, lineCandidates, resultPath, i, fromInd,
          toInd, found, fakePath, stat, ret, tolerance, tried, fakeInd, chosen>>

-----------------------------------------------------------------------------
(* The road graph.                                                         *)

\* The edges a graph may hold: one per ordered pair of distinct junctions
\* out of three junctions 1, 2, 3.
EdgeIds == 1 .. 6

GetStartJunction(e) == <<1, 2, 2, 3, 3, 1>>[e]

GetEndJunction(e) == <<2, 1, 3, 2, 1, 3>>[e]

\* The synthetic edges.
FakeEdges == {5, 6}

IsFake(e) == e \in FakeEdges

EdgeLength(e) == len[e]

\* The edges of the graph that leave junction j.
GetOutgoingEdges(j) == {e \in edges : GetStartJunction(e) = j}

-----------------------------------------------------------------------------
(* Helpers over sequences.                                                 *)

Range(s) == {s[k] : k \in 1 .. Len(s)}

RECURSIVE Reverse(_)
Reverse(s) == IF s = <<>> THEN <<>> ELSE Append(Reverse(Tail(s)), Head(s))

RECURSIVE PathLen(_)
\* ValidatePath's loop: the sum of the lengths of the edges of path.
PathLen(path) == IF path = <<>> THEN 0 ELSE EdgeLength(Head(path)) + PathLen(Tail(path))

AbsDifference(a, b) == IF a > b THEN a - b ELSE b - a

-----------------------------------------------------------------------------
(* FindShortestPath.                                                       *)

kLengthToleranceM == 10

\* State::operator>: states are ordered by (m_score, m_edge).
StateGreater(s, o) == s[1] > o[1] \/ (s[1] = o[1] /\ s[2] > o[2])

\* q.top() of the min-queue.
Top(q) == CHOOSE s \in q : \A o \in q : o = s \/ StateGreater(o, s)

NoScore == -1

RECURSIVE WalkLinks(_, _, _)
\* The reconstruction loop: e, links[e], ... up to, not including, from.
WalkLinks(e, from, links) ==
  IF e = from THEN <<>> ELSE <<e>> \o WalkLinks(links[e], from, links)

\* The test that guards the update of scores, links and q.
Relax(old, eScore) == old = NoScore \/ old > eScore

\* Pruned without the slack of kLengthToleranceM.
PrunedNoSlack(us, maxPathLength) == us > maxPathLength

\* The pruning test on a popped state.
Pruned(us, maxPathLength) == us > maxPathLength + kLengthToleranceM

\* A map over EdgeIds, held as the tuple of its values.
EdgeMap(f) == SubSeq(f, 1, Cardinality(EdgeIds))

RECURSIVE SearchLoop(_, _, _, _, _, _)
RECURSIVE Visit(_, _, _, _, _, _, _)
RECURSIVE Expand(_, _, _, _, _, _, _, _, _)

\* The loop over the outgoing edges of u: better holds the edges e whose
\* score us + EdgeLength(e) is recorded.  The edges are distinct, so every
\* iteration writes entries of its own.
Expand(u, us, better, q, scores, links, from, to, maxPathLength) ==
  SearchLoop(q \cup {<<us + EdgeLength(e), e>> : e \in better},
             EdgeMap([e \in EdgeIds |->
                        IF e \in better THEN us + EdgeLength(e) ELSE scores[e]]),
             EdgeMap([e \in EdgeIds |-> IF e \in better THEN u ELSE links[e]]),
             from, to, maxPathLength)

\* The body of the while loop for the popped state; q is the queue after pop().
Visit(state, q, scores, links, from, to, maxPathLength) ==
  LET u  == state[2]
      us == state[1]
  IN  IF Pruned(us, maxPathLength)
        THEN SearchLoop(q, scores, links, from, to, maxPathLength)
      ELSE IF us > scores[u]
        THEN SearchLoop(q, scores, links, from, to, maxPathLength)
      ELSE IF u = to
        THEN [found |-> TRUE,
              path  |-> Reverse(Append(WalkLinks(u, from, links), from))]
      ELSE Expand(u, us,
                  {e \in GetOutgoingEdges(GetEndJunction(u)) :
                     Relax(scores[e], us + EdgeLength(e))},
                  q, scores, links, from, to, maxPathLength)

\* The while loop of FindShortestPath, from the state (q, scores, links).
SearchLoop(q, scores, links, from, to, maxPathLength) ==
  IF q = {} THEN [found |-> FALSE, path |-> <<>>]
  ELSE Visit(Top(q), q \ {Top(q)}, scores, links, from, to, maxPathLength)

FindShortestPath(from, to, maxPathLength) ==
  SearchLoop({<<0, from>>},
             EdgeMap([e \in EdgeIds |-> IF e = from THEN 0 ELSE NoScore]),
             EdgeMap([e \in EdgeIds |-> e]),
             from, to, maxPathLength)

-----------------------------------------------------------------------------
(* The overlap of two edge sequences.                                      *)

\* The number of positions of s that hold e.
Count(s, e) == Cardinality({k \in 1 .. Len(s) : s[k] = e})

RECURSIVE CommonCount(_, _, _)
\* What set_intersection writes for the edges of S: every edge as often as
\* it occurs in both sorted ranges.
CommonCount(a, b, S) ==
  IF S = {} THEN 0
  ELSE LET e == CHOOSE x \in S : TRUE
       IN  (IF Count(a, e) < Count(b, e) THEN Count(a, e) ELSE Count(b, e))
             + CommonCount(a, b, S \ {e})

\* The size of the intersection of the sorted copies of a and b.
IntersectionLen(a, b) == CommonCount(a, b, Range(a))

\* equal(end(a) - len, end(a), begin(b))
PrefEqualsSuff(a, b, n) ==
  \A k \in 1 .. n : a[Len(a) - n + k] = b[k]

PathOverlappingLen(a, b) ==
  LET n == IntersectionLen(a, b)
  IN  IF PrefEqualsSuff(a, b, n) THEN n ELSE -1

-----------------------------------------------------------------------------
(* ConnectAdjacentCandidateLines and ValidatePath.                         *)

\* ConnectAdjacentCandidateLines with an overlap of -1 sent on to the search.
ConnectFallThrough(from, to, distanceToNextPoint) ==
  LET skip == PathOverlappingLen(from, to)
  IN  IF skip > 0
        THEN [found |-> TRUE, searched |-> FALSE,
              path |-> from \o SubSeq(to, skip + 1, Len(to))]
        ELSE LET sp == FindShortestPath(from[Len(from)], to[1], distanceToNextPoint)
             IN  IF ~sp.found
                   THEN [found |-> FALSE, path |-> <<>>, searched |-> TRUE]
                   ELSE [found |-> TRUE, searched |-> TRUE,
                         path |-> SubSeq(from, 1, Len(from) - 1) \o sp.path
                                    \o SubSeq(to, 2, Len(to))]

\* ConnectAdjacentCandidateLines copying to from begin(to) + skip + 1.
ConnectSkipOneMore(from, to, distanceToNextPoint) ==
  LET skip == PathOverlappingLen(from, to)
  IN  IF skip # 0
        THEN IF skip = -1
               THEN [found |-> FALSE, path |-> <<>>, searched |-> FALSE]
               ELSE [found |-> TRUE, searched |-> FALSE,
                     path |-> from \o SubSeq(to, skip + 2, Len(to))]
        ELSE LET sp == FindShortestPath(from[Len(from)], to[1], distanceToNextPoint)
             IN  IF ~sp.found
                   THEN [found |-> FALSE, path |-> <<>>, searched |-> TRUE]
                   ELSE [found |-> TRUE, searched |-> TRUE,
                         path |-> SubSeq(from, 1, Len(from) - 1) \o sp.path
                                    \o SubSeq(to, 2, Len(to))]

\* The result is what the call appends to an empty resultPath; searched tells
\* whether the call ran FindShortestPath.
ConnectAdjacentCandidateLines(from, to, distanceToNextPoint) ==
  LET skip == PathOverlappingLen(from, to)
  IN  IF skip # 0
        THEN IF skip = -1
               THEN [found |-> FALSE, path |-> <<>>, searched |-> FALSE]
               ELSE [found |-> TRUE, searched |-> FALSE,
                     path |-> from \o SubSeq(to, skip + 1, Len(to))]
        ELSE LET sp == FindShortestPath(from[Len(from)], to[1], distanceToNextPoint)
             IN  IF ~sp.found
                   THEN [found |-> FALSE, path |-> <<>>, searched |-> TRUE]
                   ELSE [found |-> TRUE, searched |-> TRUE,
                         path |-> SubSeq(from, 1, Len(from) - 1) \o sp.path
                                    \o SubSeq(to, 2, Len(to))]

\* ValidatePath with the signed difference in place of AbsDifference.
ValidatePathSigned(path, distanceToNextPoint, tol) ==
  ~((distanceToNextPoint - PathLen(path)) * tol[2] > tol[1] * distanceToNextPoint)

\* pathDiffPercent > pathLengthTolerance rejects.  With the tolerance the
\* fraction tol[1] / tol[2], |d - pathLen| / d > tol[1] / tol[2] is compared
\* cross-multiplied.  For d = 0 the quotient is NaN when pathLen = 0 (no
\* comparison with NaN is true: accepted) and +inf otherwise (rejected), which
\* is what the cross-multiplied comparison gives.
ValidatePath(path, distanceToNextPoint, tol) ==
  LET pathLen == PathLen(path)
  IN  ~(AbsDifference(distanceToNextPoint, pathLen) * tol[2] > tol[1] * distanceToNextPoint)

-----------------------------------------------------------------------------
(* FindShortestPath on its own: every graph over EdgeIds.                  *)

MaxEdgeLength == 6

MaxPathLength == 2

\* The lengths an edge may have.
EdgeLengths == {0, MaxEdgeLength - 1, MaxEdgeLength}

NoCall == [from |-> 0, to |-> 0, maxPathLength |-> 0, distanceToNextPoint |-> 0,
           done |-> FALSE, res |-> [found |-> FALSE, path |-> <<>>, searched |-> FALSE]]

IdleCC ==
  /\ points = <<>> /\ lineCandidates = <<>> /\ resultPath = <<>>
  /\ i = 0 /\ fromInd = 0 /\ toInd = 0 /\ found = FALSE /\ fakePath = <<>>
  /\ stat = 0 /\ ret = "none" /\ tolerance = <<0, 1>>
  /\ tried = {} /\ fakeInd = <<>> /\ chosen = <<>>

ccVars == <<points, lineCandidates, resultPath, i, fromInd, toInd, found, fakePath,
            stat, ret, tolerance, tried, fakeInd, chosen>>

InitFind ==
  /\ edges \in SUBSET EdgeIds
  /\ len \in [EdgeIds -> EdgeLengths]
  /\ \A e \in EdgeIds \ edges : len[e] = 0
  /\ pc = "find"
  /\ \E from \in edges, to \in EdgeIds, m \in 0 .. MaxPathLength :
       fsp = [NoCall EXCEPT !.from = from, !.to = to, !.maxPathLength = m]
  /\ adj = NoCall
  /\ IdleCC

\* One call of FindShortestPath.
Find ==
  /\ pc = "find"
  /\ ~fsp.done
  /\ LET r == FindShortestPath(fsp.from, fsp.to, fsp.maxPathLength)
     IN  fsp' = [fsp EXCEPT !.done = TRUE,
                            !.res = [found |-> r.found, path |-> r.path, searched |-> TRUE]]
  /\ UNCHANGED <<edges, len, pc, adj>>
  /\ UNCHANGED ccVars

NextFind == Find

SpecFind == InitFind /\ [][NextFind]_vars

-----------------------------------------------------------------------------
(* ConnectAdjacentCandidateLines on its own: every pair of duplicate-free  *)
(* edge sequences of at most MaxCandidateLen edges.                        *)

MaxCandidateLen == 3

\* The lengths of the roads of the graph ConnectCandidates runs on: edge 4 is
\* too long for any search of the model to reach it within its budget.
RoadLengths == <<1, 1, 1, 20, 1, 1>>

IsDuplicateFree(s) == \A k, l \in 1 .. Len(s) : s[k] = s[l] => k = l

\* The non-empty duplicate-free edge sequences of at most n edges.
EdgeVectors(n) ==
  {s \in UNION {[1 .. k -> EdgeIds] : k \in 1 .. n} : IsDuplicateFree(s)}

\* The values of distanceToNextPoint.
Distances == {2, 4}

InitConnect ==
  /\ edges = EdgeIds
  /\ len \in {RoadLengths, [e \in EdgeIds |-> MaxEdgeLength]}
  /\ pc = "connect"
  /\ fsp = NoCall
  /\ \E from \in EdgeVectors(MaxCandidateLen), to \in EdgeVectors(MaxCandidateLen),
        d \in Distances :
       adj = [NoCall EXCEPT !.from = from, !.to = to, !.distanceToNextPoint = d]
  /\ IdleCC

\* One call of ConnectAdjacentCandidateLines with an empty resultPath.
Connect ==
  /\ pc = "connect"
  /\ ~adj.done
  /\ adj' = [adj EXCEPT !.done = TRUE,
                        !.res = ConnectAdjacentCandidateLines(adj.from, adj.to,
                                                              adj.distanceToNextPoint)]
  /\ UNCHANGED <<edges, len, pc, fsp>>
  /\ UNCHANGED ccVars

NextConnect == Connect

SpecConnect == InitConnect /\ [][NextConnect]_vars

-----------------------------------------------------------------------------
(* ConnectCandidates.                                                      *)

\* The candidate sequences the points draw from.
CandidatePool == {<<1>>, <<3>>, <<5>>, <<1, 2>>, <<4>>}

\* The numbers of candidates a point may have.
CandidateCounts == 0 .. 2

\* The numbers of points of a reference.
PointCounts == 1 .. 3

\* The values of m_pathLengthTolerance: 1/2 and 3/10.
Tolerances == {<<1, 2>>, <<3, 10>>}

\* The candidate lists of one point: distinct sequences of the pool, in any order.
CandidateLists ==
  {c \in UNION {[1 .. k -> CandidatePool] : k \in CandidateCounts} :
     \A k, l \in 1 .. Len(c) : c[k] = c[l] => k = l}

InitCC ==
  /\ edges = EdgeIds
  /\ len = RoadLengths
  /\ pc = "start"
  /\ fsp = NoCall
  /\ adj = NoCall
  /\ \E n \in PointCounts :
       /\ points \in [1 .. n -> Distances \cup {0}]
       /\ \A k \in 1 .. n : (points[k] = 0) <=> (k = n)
       /\ lineCandidates \in [1 .. n -> CandidateLists]
  /\ tolerance \in Tolerances
  /\ resultPath = <<>>
  /\ i = 0 /\ fromInd = 0 /\ toInd = 0 /\ found = FALSE /\ fakePath = <<>>
  /\ stat = 0 /\ ret = "none"
  /\ tried = {} /\ fakeInd = <<>> /\ chosen = <<>>

\* The test of lines 112-113: the validated path is kept as the fallback
\* instead of being accepted.
DeferFake(fake, valid, path) ==
  fake = <<>> /\ valid /\ (IsFake(path[1]) \/ IsFake(path[Len(path)]))

\* The fallback never accepted.
UseFallbackNever(fake, fnd) == FALSE

\* The test of line 121: the fallback is accepted.
UseFallback(fake, fnd) == fake # <<>> /\ ~fnd

\* The slot left as the last attempt filled it.
KeepOnFailure(part) == part

\* resultPathPart.clear() on failure.
ClearOnFailure(part) == <<>>

\* resultPath.resize(points.size() - 1) and the entry of the outer loop.
Begin ==
  /\ pc = "start"
  /\ pc' = "run"
  /\ resultPath' = [k \in 1 .. Len(points) - 1 |->
                      IF k <= Len(resultPath) THEN resultPath[k] ELSE <<>>]
  /\ i' = 1
  /\ found' = FALSE /\ fakePath' = <<>> /\ fromInd' = 0 /\ toInd' = 0
  /\ UNCHANGED <<edges, len, fsp, adj, points, lineCandidates, stat, ret, tolerance,
                 tried, fakeInd, chosen>>

\* One run of the body of the inner loop, with the loop tests that follow it.
TryPair ==
  /\ pc = "run"
  /\ i < Len(points)
  /\ fromInd < Len(lineCandidates[i])
  /\ toInd < Len(lineCandidates[i + 1])
  /\ ~found
  /\ \E r \in {ConnectAdjacentCandidateLines(lineCandidates[i][fromInd + 1],
                                              lineCandidates[i + 1][toInd + 1],
                                              points[i])} :
     \E valid \in {r.found /\ ValidatePath(r.path, points[i], tolerance)} :
     \E defer \in {r.found /\ DeferFake(fakePath, valid, r.path)} :
     \E fnd \in {valid /\ ~defer} :
         /\ resultPath' = [resultPath EXCEPT ![i] = r.path]
         /\ found' = fnd
         /\ fakePath' = IF defer THEN r.path ELSE fakePath
         /\ fakeInd' = IF defer THEN <<fromInd, toInd>> ELSE fakeInd
         /\ chosen' = IF fnd THEN Append(chosen, <<fromInd, toInd>>) ELSE chosen
         /\ IF toInd + 1 < Len(lineCandidates[i + 1]) /\ ~fnd
              THEN toInd' = toInd + 1 /\ fromInd' = fromInd
              ELSE toInd' = 0 /\ fromInd' = fromInd + 1
  /\ tried' = tried \cup {<<i, fromInd, toInd>>}
  /\ UNCHANGED <<edges, len, pc, fsp, adj, points, lineCandidates, i, stat, ret,
                 tolerance>>

\* Lines 121-133: the loops over the candidates of segment i have ended.
EndSegment ==
  /\ pc = "run"
  /\ i < Len(points)
  /\ found \/ fromInd >= Len(lineCandidates[i]) \/ Len(lineCandidates[i + 1]) = 0
  /\ LET fallback == UseFallback(fakePath, found)
         fnd      == found \/ fallback
         part     == IF fallback THEN fakePath ELSE resultPath[i]
     IN  IF ~fnd
           THEN /\ stat' = stat + 1
                /\ resultPath' = [resultPath EXCEPT ![i] = ClearOnFailure(part)]
                /\ ret' = "false"
                /\ pc' = "done"
                /\ UNCHANGED <<i, found, fakePath, fromInd, toInd, fakeInd, chosen>>
           ELSE /\ resultPath' = [resultPath EXCEPT ![i] = part]
                /\ chosen' = IF fallback THEN Append(chosen, fakeInd) ELSE chosen
                /\ i' = i + 1
                /\ found' = FALSE /\ fakePath' = <<>> /\ fromInd' = 0 /\ toInd' = 0
                /\ fakeInd' = <<>>
                /\ UNCHANGED <<stat, ret, pc>>
  /\ UNCHANGED <<edges, len, fsp, adj, points, lineCandidates, tolerance, tried>>

\* Lines 136-138: the outer loop has ended.
ReturnTrue ==
  /\ pc = "run"
  /\ i >= Len(points)
  /\ ret' = "true"
  /\ pc' = "done"
  /\ UNCHANGED <<edges, len, fsp, adj, points, lineCandidates, resultPath, i, fromInd,
                 toInd, found, fakePath, stat, tolerance, tried, fakeInd, chosen>>

Init == InitCC

Next == Begin \/ TryPair \/ EndSegment \/ ReturnTrue

Spec == Init /\ [][Next]_vars

-----------------------------------------------------------------------------
(* Properties of FindShortestPath (SpecFind).                              *)

\* More than the cost of any path without a repeated edge.
Unreachable == Cardinality(EdgeIds) * MaxEdgeLength + 1

Min2(a, b) == IF a < b THEN a ELSE b

SetMin(S) ==
  IF S = {} THEN Unreachable
  ELSE CHOOSE x \in S : \A y \in S : x <= y

\* One round of relaxation of every edge of the graph over the costs d.
RelaxAll(d) ==
  EdgeMap([e \in EdgeIds |->
     IF e \notin edges THEN d[e]
     ELSE Min2(d[e], SetMin({d[p] + len[e] :
                 p \in {x \in EdgeIds : d[x] < Unreachable
                                        /\ GetEndJunction(x) = GetStartJunction(e)}}))])

RECURSIVE RelaxRounds(_, _)
RelaxRounds(d, n) == IF n = 0 THEN d ELSE RelaxRounds(RelaxAll(d), n - 1)

\* The least sum of the lengths of the edges that follow from on a path of the
\* graph from the edge from to the edge to; Unreachable when there is none.
MinCost(from, to) ==
  RelaxRounds(EdgeMap([e \in EdgeIds |-> IF e = from THEN 0 ELSE Unreachable]),
              Cardinality(EdgeIds))[to]

\* path is a path of the graph from the edge from to the edge to.
IsPathFromTo(path, from, to) ==
  /\ Len(path) >= 1
  /\ path[1] = from
  /\ path[Len(path)] = to
  /\ \A k \in 2 .. Len(path) :
       /\ path[k] \in edges
       /\ GetStartJunction(path[k]) = GetEndJunction(path[k - 1])

-----------------------------------------------------------------------------
(* Properties of ConnectAdjacentCandidateLines (SpecConnect).              *)

\* The last k edges of a are, in order, the first k edges of b, and a and b
\* have no other common edge.
CleanOverlap(a, b, k) ==
  /\ k <= Len(a)
  /\ k <= Len(b)
  /\ \A l \in 1 .. k : a[Len(a) - k + l] = b[l]
  /\ Range(a) \cap Range(b) = {b[l] : l \in 1 .. k}

\* a and b have common edges that are no clean overlap.
InvalidOverlap(a, b) ==
  /\ Range(a) \cap Range(b) # {}
  /\ ~\E k \in 1 .. Len(b) : CleanOverlap(a, b, k)

\* What the search branch gives for from and to.
SearchBranch(from, to, distanceToNextPoint) ==
  LET sp == FindShortestPath(from[Len(from)], to[1], distanceToNextPoint)
  IN  [found |-> sp.found, searched |-> TRUE,
       path |-> IF sp.found
                  THEN SubSeq(from, 1, Len(from) - 1) \o sp.path \o SubSeq(to, 2, Len(to))
                  ELSE <<>>]

\* C3 as stated: on an invalid overlap the call runs the search from
\* from.last to to.first, succeeds with from[:-1] + found path + to[1:] when
\* the search succeeds and reports no connection only when the search fails.
C3_AsStated ==
  (adj.done /\ InvalidOverlap(adj.from, adj.to)) =>
    adj.res = SearchBranch(adj.from, adj.to, adj.distanceToNextPoint)

\* C3, amended: on an invalid overlap of duplicate-free sequences the call
\* reports no connection without running the shortest-path search and appends
\* nothing to resultPath, whether or not a path from from.last to to.first
\* exists.
C3_InvalidOverlapFails ==
  (adj.done /\ InvalidOverlap(adj.from, adj.to)) =>
    /\ ~adj.res.found
    /\ ~adj.res.searched
    /\ adj.res.path = <<>>

\* An invalid overlap for which the search from from.last to to.first would
\* have found a path.
C3_Witness ==
  /\ adj.done
  /\ InvalidOverlap(adj.from, adj.to)
  /\ Len(adj.from) >= 2
  /\ SearchBranch(adj.from, adj.to, adj.distanceToNextPoint).found

\* C7: when the last k > 0 edges of A are the first k edges of B and A and B
\* share no other edge, the call succeeds without running the search and
\* gives A followed by B without its first k edges, len(A) + len(B) - k
\* edges in all.
C7_OverlapSplice ==
  adj.done =>
    \A k \in 1 .. Len(adj.to) :
      CleanOverlap(adj.from, adj.to, k) =>
        /\ adj.res.found
        /\ ~adj.res.searched
        /\ Len(adj.res.path) = Len(adj.from) + Len(adj.to) - k
        /\ \A l \in 1 .. Len(adj.from) : adj.res.path[l] = adj.from[l]
        /\ \A l \in k + 1 .. Len(adj.to) :
             adj.res.path[Len(adj.from) + l - k] = adj.to[l]

\* A splice over two shared edges that keeps an edge of B after them.
C7_Witness ==
  /\ adj.done
  /\ CleanOverlap(adj.from, adj.to, 2)
  /\ Len(adj.from) = 3
  /\ Len(adj.to) = 3
  /\ adj.res.found

-----------------------------------------------------------------------------
(* Properties of ConnectCandidates (Spec).                                 *)

\* What the candidate pair (f, t) of segment s connects to; f and t count from 1.
PairResult(s, f, t) ==
  ConnectAdjacentCandidateLines(lineCandidates[s][f], lineCandidates[s + 1][t], points[s])

\* |d - L| <= tolerance * d for the length L of path.
WithinTolerance(path, d) ==
  AbsDifference(d, PathLen(path)) * tolerance[2] <= tolerance[1] * d

\* The candidate pairs of segment s that connect to a path within tolerance.
ValidPairs(s) ==
  {p \in (1 .. Len(lineCandidates[s])) \X (1 .. Len(lineCandidates[s + 1])) :
     \E r \in {PairResult(s, p[1], p[2])} :
       r.found /\ WithinTolerance(r.path, points[s])}

FakeBoundary(path) == IsFake(path[1]) \/ IsFake(path[Len(path)])

\* The first pair of S in iteration order: from-candidates outer, to-candidates inner.
FirstPair(S) ==
  CHOOSE p \in S : \A o \in S : p[1] < o[1] \/ (p[1] = o[1] /\ p[2] <= o[2])

\* The segments for which a path has been accepted.
Accepted == 1 .. Len(chosen)

IsPrefix(c, path) == Len(c) <= Len(path) /\ SubSeq(path, 1, Len(c)) = c

IsSuffix(c, path) ==
  Len(c) <= Len(path) /\ SubSeq(path, Len(path) - Len(c) + 1, Len(path)) = c

\* C1 as stated: a segment with a candidate pair that connects to a path
\* within tolerance with a non-fake first and last edge is given a path with
\* a non-fake first and last edge, however many paths with a fake boundary
\* edge come earlier in iteration order.
C1_AsStated ==
  pc = "done" =>
    \A s \in Accepted :
      (\E p \in ValidPairs(s) : ~FakeBoundary(PairResult(s, p[1], p[2]).path))
        => ~FakeBoundary(resultPath[s])

\* C2 as stated: a segment all of whose connecting pairs within tolerance give
\* a path with a fake boundary edge is given the path of the first such pair
\* in iteration order.
C2_AsStated ==
  pc = "done" =>
    \A s \in Accepted :
      (/\ ValidPairs(s) # {}
       /\ \A p \in ValidPairs(s) : FakeBoundary(PairResult(s, p[1], p[2]).path))
        => resultPath[s] = PairResult(s, FirstPair(ValidPairs(s))[1],
                                         FirstPair(ValidPairs(s))[2]).path

\* C4 as stated: on success over duplicate-free candidates no path of the
\* result holds an edge twice.
C4_AsStated ==
  ret = "true" => \A s \in 1 .. Len(resultPath) : IsDuplicateFree(resultPath[s])

\* C5 as stated: on failure every slot of resultPath is empty.
C5_AsStated ==
  ret = "false" => \A s \in 1 .. Len(resultPath) : resultPath[s] = <<>>

\* C5, amended: on failure the slot of the failing segment is empty, and the
\* slots of the segments resolved before it still hold the paths accepted for
\* them.
C5_FailedSlotCleared ==
  ret = "false" =>
    /\ resultPath[i] = <<>>
    /\ \A s \in 1 .. i - 1 :
         /\ resultPath[s] # <<>>
         /\ resultPath[s] = PairResult(s, chosen[s][1] + 1, chosen[s][2] + 1).path

\* A failure at the second segment, after an attempt that filled its slot,
\* with the first segment resolved.
C5_Witness ==
  /\ ret = "false"
  /\ i = 2
  /\ resultPath[1] # <<>>
  /\ \E tr \in tried : tr[1] = 2 /\ PairResult(2, tr[2] + 1, tr[3] + 1).found

\* C8: on success resultPath has one entry per segment, and every entry is
\* non-empty with a length L such that |d - L| <= tolerance * d for the
\* distanceToNextPoint d of the segment, fallback or not.
C8_WithinTolerance ==
  ret = "true" =>
    /\ Len(resultPath) = Len(points) - 1
    /\ \A s \in 1 .. Len(resultPath) :
         /\ resultPath[s] # <<>>
         /\ WithinTolerance(resultPath[s], points[s])

\* A success over two segments, one accepted through the fallback and one
\* with a deviation exactly at the tolerance.
C8_Witness ==
  /\ ret = "true"
  /\ Len(resultPath) = 2
  /\ \E s \in 1 .. 2 : FakeBoundary(resultPath[s])
  /\ \E s \in 1 .. 2 :
       /\ PathLen(resultPath[s]) # points[s]
       /\ AbsDifference(points[s], PathLen(resultPath[s])) * tolerance[2]
            = tolerance[1] * points[s]

\* The segments none of whose candidate pairs connects to a path within tolerance.
Unresolvable == {s \in 1 .. Len(points) - 1 : ValidPairs(s) = {}}

\* C9: when some segment has no candidate pair that yields an accepted path,
\* the call fails at the first such segment, attempts no later segment,
\* leaves that slot empty and has incremented noShortestPathFound by exactly
\* one; a call that succeeds leaves the counter as it was.
C9_FailureAccounting ==
  /\ stat \in {0, 1}
  /\ ret # "false" => stat = 0
  /\ pc = "done" =>
       \A failing \in {Unresolvable} :
         IF failing # {}
           THEN /\ ret = "false"
                /\ \A s \in failing : i <= s
                /\ i \in failing
                /\ \A tr \in tried : tr[1] <= i
                /\ resultPath[i] = <<>>
                /\ stat = 1
           ELSE ret = "true"

\* A failure at the first of two segments after more than one attempt, the
\* second segment being resolvable.
C9_Witness ==
  /\ ret = "false"
  /\ i = 1
  /\ Len(points) = 3
  /\ Cardinality(tried) >= 2
  /\ ValidPairs(2) # {}

\* C10 as stated: on success over three or more points, the candidate of an
\* interior point that the preceding segment's path ends on is the candidate
\* the following segment's path begins with.
C10_AsStated ==
  (ret = "true" /\ Len(points) >= 3) =>
    \A p \in 2 .. Len(points) - 1 : chosen[p - 1][2] = chosen[p][1]

\* C10, amended: on success over three or more points, for every interior
\* point with exactly one candidate sequence the preceding segment's path
\* ends with that sequence and the following segment's path begins with it;
\* at a point with more candidates the two segments choose independently.
C10_SingleCandidateJoins ==
  (ret = "true" /\ Len(points) >= 3) =>
    \A p \in 2 .. Len(points) - 1 :
      Len(lineCandidates[p]) = 1 =>
        /\ IsSuffix(lineCandidates[p][1], resultPath[p - 1])
        /\ IsPrefix(lineCandidates[p][1], resultPath[p])

\* A success over three points whose interior point has the one candidate
\* <<1, 2>>, reached by a splice and left by a search.
C10_Witness ==
  /\ ret = "true"
  /\ Len(points) = 3
  /\ lineCandidates[2] = << <<1, 2>> >>
  /\ lineCandidates[1] = << <<1>> >>
  /\ Len(resultPath[2]) > 2

====
